---- MODULE Spec2Model ----
(***************************************************************************)
(* Model of dfdewey/datastore/elastic.py: class ElasticsearchDataStore.     *)
(*                                                                         *)
(* The store owns a backend client, the pending buffer import_events and    *)
(* the counter import_counter['events'].  Every public method is one        *)
(* action; a call runs to completion (the class is single threaded).        *)
(*                                                                         *)
(* Python values are modelled by what the code does with them:              *)
(*   - a string is [t |-> "text" | "bytes", s |-> <characters>]; b'k' and   *)
(*     'k' are different values (Python 3), and codecs.decode turns the     *)
(*     first into the second.  Binary strings are valid UTF-8.              *)
(*   - a dict is the sequence of its items [k |-> key, v |-> value] in      *)
(*     insertion order, with unique keys.                                   *)
(* The backend (the elasticsearch client) is not code of this repository:   *)
(* it is modelled by the set of indices it holds; indices.exists answers,   *)
(* indices.create / indices.delete either succeed or raise                  *)
(* ConnectionError, bulk either succeeds or raises.                         *)
(***************************************************************************)
EXTENDS Integers, Sequences, FiniteSets, TLC

\* Bounds of the model: the import_event calls with a non-empty event that
\* one store receives (under Spec, and under SpecShapes), and the largest
\* small flush interval.
MaxCalls == 3
MaxShapeCalls == 1
MaxInterval == 2

\* Program constants (class attributes).
DEFAULT_FLUSH_INTERVAL == 20000

DEFAULT_SIZE == 1000

--------------------------------------------------------------------------
\* Python values.

None == [t |-> "none", s |-> ""]

Text(s) == [t |-> "text", s |-> s]

Bytes(s) == [t |-> "bytes", s |-> s]

\* isinstance(x, six.text_type)
IsText(x) == x.t = "text"

\* isinstance(x, six.binary_type)
IsBinary(x) == x.t = "bytes"

\* codecs.decode(x, 'utf8')
decode(x) == [t |-> "text", s |-> x.s]

\* Python truth value of None, a text string or a binary string.
Truthy(x) == x.t # "none" /\ x.s # ""

\* A dict literal with the given items.
Dict(items) == [t |-> "dict", items |-> items]

\* `if event:` is false for None and for the empty dict.
\* Mutant of EventTruthy: only an absent event is falsy.
EventGiven(event) == event # None

EventTruthy(event) == event.t = "dict" /\ Len(event.items) > 0

DictKeys(d) == {d.items[i].k : i \in 1..Len(d.items)}

DictValues(d) == {d.items[i].v : i \in 1..Len(d.items)}

\* d.get(key): the value, or None when the key is absent.
DictGet(d, key) ==
  IF key \in DictKeys(d)
    THEN d.items[CHOOSE i \in 1..Len(d.items) : d.items[i].k = key].v
    ELSE None

\* d[key] = value: an existing key keeps its position (and its key object),
\* a new key is appended.
DictSet(d, key, value) ==
  IF key \in DictKeys(d)
    THEN Dict([i \in 1..Len(d.items) |->
                 IF d.items[i].k = key THEN [k |-> key, v |-> value]
                                       ELSE d.items[i]])
    ELSE Dict(Append(d.items, [k |-> key, v |-> value]))

--------------------------------------------------------------------------
\* Inputs of the calls.

\* Index names handed to the methods: text, or binary as create_index allows.
IndexNames == {Text("idx"), Bytes("idx"), Text("logs")}

\* Event ids: absent, empty, and a real id.
EventIds == {None, Text(""), Text("e1")}

\* Events: absent, empty, a binary value, a script (lang set), an empty lang,
\* a binary key, a binary key beside its text twin.
NoEvents == {None, Dict(<< >>)}

ValueEvent == Dict(<<[k |-> Text("k"), v |-> Bytes("v")]>>)

BinaryKeyEvent == Dict(<<[k |-> Bytes("k"), v |-> Bytes("v")]>>)

Events ==
  NoEvents \cup
  { ValueEvent,
    Dict(<<[k |-> Text("lang"), v |-> Text("painless")]>>),
    Dict(<<[k |-> Text("lang"), v |-> Text("")]>>),
    BinaryKeyEvent,
    Dict(<<[k |-> Bytes("k"), v |-> Bytes("v")], [k |-> Text("k"), v |-> Text("w")]>>) }

\* The inputs of Spec, where the buffer lives through several calls: one
\* index, an event that buffers and one whose normalisation raises, with and
\* without an id.
ProtocolNames == {Text("idx")}

ProtocolEvents == NoEvents \cup {ValueEvent, BinaryKeyEvent}

ProtocolIds == {None, Text("e1")}

FlushIntervals == (1..MaxInterval) \cup {DEFAULT_FLUSH_INTERVAL}

\* The inputs of search: well-formed, malformed and empty query strings,
\* the default size and smaller ones, and what the backend answers: a
\* result set, or an error (bad syntax, missing index).
QueryStrings == {Text("foo AND bar"), Text("foo AND ("), Text("")}

Sizes == {DEFAULT_SIZE, 1, 10}

SearchAnswers ==
  { [kind |-> "response", hits |-> <<"doc1">>],
    [kind |-> "response", hits |-> << >>],
    [kind |-> "error", error |-> "RequestError"],
    [kind |-> "error", error |-> "NotFoundError"] }

\* The searches of the whole-program specification.
ProtocolQueries == {Text("foo AND bar")}

ProtocolSizes == {DEFAULT_SIZE}

ProtocolAnswers ==
  { [kind |-> "response", hits |-> <<"doc1">>],
    [kind |-> "error", error |-> "RequestError"] }

--------------------------------------------------------------------------
\* The state.

VARIABLES
  import_events,    \* self.import_events: the pending buffer
  import_counter,   \* self.import_counter['events']
  indices,          \* the backend: names of the indices that exist
  last,             \* the call that ran last: arguments, requests, outcome
  nonempty_calls,   \* history: import_event calls made with a non-empty event
  normalize_errors, \* history: those of them that raised while normalising
  run,              \* history: the import_event calls since construction
  drained,          \* history: the last import_event call was a drain that returned
  bulk_failed,      \* history: some bulk-write has raised
  create_requests,  \* history: create requests served per index since it was absent
  delete_requests,  \* history: delete requests served per index since it was present
  import_ids,       \* history: for each element of the buffer, the call that appended it
  sent_ids,         \* history: the calls whose pair was in a bulk-write that succeeded
  owed,             \* history: the buffer an auto-flush that raised left, until the next bulk-write
  intervals         \* history: the flush intervals of the import_event calls so far

vars == <<import_events, import_counter, indices, last, nonempty_calls,
          normalize_errors, run, drained, bulk_failed, create_requests,
          delete_requests, import_ids, sent_ids, owed, intervals>>

\* The history kept for the delivery of pairs.
ImportHistory == <<import_ids, sent_ids, owed, intervals>>

\* The name the backend knows an index by, whatever string type names it.
IndexId(index_name) == index_name.s

IndexIds == {IndexId(n) : n \in IndexNames}

NoCall ==
  [op |-> "__init__", index_name |-> None, event |-> None, event_id |-> None,
   flush_interval |-> 0, outcome |-> "returned", ret |-> None,
   error |-> "", message |-> << >>, requests |-> << >>, bulk |-> << >>,
   existed |-> FALSE, reachable |-> TRUE, after_drain |-> FALSE,
   pre_events |-> << >>, pre_counter |-> 0, bulk_raised |-> FALSE,
   query_string |-> None, size |-> 0, search |-> << >>, answer |-> None,
   bulk_ids |-> << >>, resent |-> {}, pre_owed |-> << >>]

NoRun ==
  [alive |-> FALSE, flush_interval |-> 0, calls |-> 0, bulks |-> 0,
   returned |-> FALSE]

\* __init__: an empty counter and an empty buffer.
Init ==
  /\ import_events = << >>
  /\ import_counter = 0
  /\ indices = {}
  /\ last = NoCall
  /\ nonempty_calls = 0
  /\ normalize_errors = 0
  /\ run = [NoRun EXCEPT !.alive = TRUE]
  /\ drained = FALSE
  /\ bulk_failed = FALSE
  /\ create_requests = [i \in IndexIds |-> 0]
  /\ delete_requests = [i \in IndexIds |-> 0]
  /\ import_ids = << >>
  /\ sent_ids = {}
  /\ owed = << >>
  /\ intervals = {}

--------------------------------------------------------------------------
\* import_event

RECURSIVE NormalizeFrom(_, _, _)
\* The loop `for k, v in event.items(): ... event[k] = v`.  `used` is the size
\* of the dict when the iterator was made: the iterator raises RuntimeError
\* ("dictionary changed size during iteration") when the size differs.
NormalizeFrom(event, pos, used) ==
  IF Len(event.items) # used
    THEN [raised |-> TRUE, event |-> event]
    ELSE IF pos > Len(event.items)
      THEN [raised |-> FALSE, event |-> event]
      ELSE LET k0 == event.items[pos].k
               v0 == event.items[pos].v
               k == IF ~IsText(k0) THEN decode(k0) ELSE k0
               v == IF IsBinary(v0) THEN decode(v0) ELSE v0
           IN NormalizeFrom(DictSet(event, k, v), pos + 1, used)

NormalizeEvent(event) == NormalizeFrom(event, 1, Len(event.items))

\* Mutant of BulkHeader: the update header is never chosen.
BulkHeaderNeverUpdate(index_name, event_id) ==
  [index |-> [_index |-> index_name]]

\* header / update_header, and the choice `if event_id:` makes between them.
BulkHeader(index_name, event_id) ==
  IF Truthy(event_id)
    THEN [update |-> [_index |-> index_name, _id |-> event_id]]
    ELSE [index |-> [_index |-> index_name]]

\* Mutant of BulkPayload: lang is not looked at.
BulkPayloadNeverScript(event, event_id) ==
  IF Truthy(event_id) THEN [doc |-> event] ELSE event

\* The payload: wrapped as script or doc for an update, the event otherwise.
BulkPayload(event, event_id) ==
  IF Truthy(event_id)
    THEN IF Truthy(DictGet(event, Text("lang")))
           THEN [script |-> event]
           ELSE [doc |-> event]
    ELSE event

\* self.import_counter['events'] % int(flush_interval) == 0
FlushDue(events, flush_interval) == events % flush_interval = 0

\* What remains in the buffer after the drain branch has sent it.
AfterDrain(buffer) == buffer

\* Mutant of AfterFlush: the assignment of the empty list is missing.
AfterFlushKept(buffer) == buffer

\* What remains in the buffer after the auto-flush has sent it.
AfterFlush(buffer) == << >>

\* The counter after one event was buffered.
Increment(events) == events + 1

\* Mutant of BulkBody: only the pair appended last is sent.
BulkBodyLastPair(buffer) == SubSeq(buffer, Len(buffer) - 1, Len(buffer))

\* client.bulk(body=self.import_events)
BulkBody(buffer) == buffer


\* Mutant of BufferAppend: the payload is appended before its header.
BufferAppendSwapped(buffer, header, payload) ==
  Append(Append(buffer, payload), header)

\* self.import_events.append(header); self.import_events.append(event)
BufferAppend(buffer, header, payload) ==
  Append(Append(buffer, header), payload)

\* Mutant of AfterFailedFlush: the buffer is emptied before client.bulk is
\* called, so a bulk-write that raises loses it.
AfterFailedFlushCleared(buffer) == << >>

\* What remains in the buffer when the auto-flush's client.bulk raises: the
\* assignment after it is not reached.
AfterFailedFlush(buffer) == buffer

\* Mutant of BulkFailed: the exception is caught and the count returned.
BulkFailedSwallowed(call) == [call EXCEPT !.ret = call.pre_counter]

\* client.bulk raises inside import_event: nothing catches the exception.
BulkFailed(call) ==
  [call EXCEPT !.outcome = "raised", !.error = "TransportError"]

\* The record of an import_event call: the arguments its branch reads (the
\* drain branch reads neither index_name nor event_id).
ImportCall(index_name, event, event_id, flush_interval) ==
  IF EventTruthy(event)
    THEN [NoCall EXCEPT !.op = "import_event", !.index_name = index_name,
                        !.event = event, !.event_id = event_id,
                        !.flush_interval = flush_interval,
                        !.pre_events = import_events,
                        !.pre_counter = import_counter]
    ELSE [NoCall EXCEPT !.op = "import_event", !.event = event,
                        !.flush_interval = flush_interval,
                        !.after_drain = drained,
                        !.pre_events = import_events,
                        !.pre_counter = import_counter]

\* The run of calls since construction: alive while every import_event call
\* had a non-empty event and the same flush interval.
RunStep(event, flush_interval, bulks, returned) ==
  IF run.alive /\ EventTruthy(event)
       /\ (run.calls = 0 \/ run.flush_interval = flush_interval)
    THEN [alive |-> TRUE, flush_interval |-> flush_interval,
          calls |-> run.calls + 1, bulks |-> run.bulks + bulks,
          returned |-> returned]
    ELSE NoRun

\* import_event(index_name, event, event_id, flush_interval); bulk_ok says
\* whether client.bulk, if called, succeeds.
import_event(index_name, event, event_id, flush_interval, bulk_ok) ==
  LET call == [ImportCall(index_name, event, event_id, flush_interval)
                 EXCEPT !.pre_owed = owed]
      Ids(body) == {body[i] : i \in 1..Len(body)}
      Bulk(c, body, ids) ==
        [c EXCEPT !.bulk = <<body>>, !.bulk_ids = <<ids>>,
                  !.resent = Ids(ids) \cap sent_ids]
  IN
  /\ UNCHANGED <<indices, create_requests, delete_requests>>
  /\ intervals' = IF intervals \subseteq {flush_interval}
                    THEN {flush_interval} ELSE FlushIntervals
  /\ IF EventTruthy(event)
       THEN
         /\ nonempty_calls' = nonempty_calls + 1
         /\ drained' = FALSE
         /\ LET n == NormalizeEvent(event) IN
            IF n.raised
              THEN
                /\ UNCHANGED <<import_events, import_counter, bulk_failed>>
                /\ UNCHANGED <<import_ids, sent_ids, owed>>
                /\ normalize_errors' = normalize_errors + 1
                /\ last' = [call EXCEPT !.outcome = "raised",
                                        !.error = "RuntimeError"]
                /\ run' = RunStep(event, flush_interval, 0, FALSE)
              ELSE
                LET buffer == BufferAppend(import_events,
                                           BulkHeader(index_name, event_id),
                                           BulkPayload(n.event, event_id))
                    events == Increment(import_counter)
                    ids == BufferAppend(import_ids, events, events)
                IN
                /\ import_counter' = events
                /\ UNCHANGED normalize_errors
                /\ IF FlushDue(events, flush_interval)
                     THEN
                       /\ run' = RunStep(event, flush_interval, 1, bulk_ok)
                       /\ bulk_failed' = (bulk_failed \/ ~bulk_ok)
                       /\ IF bulk_ok
                            THEN /\ import_events' = AfterFlush(buffer)
                                 /\ import_ids' = AfterFlush(ids)
                                 /\ sent_ids' = sent_ids \cup Ids(BulkBody(ids))
                                 /\ owed' = << >>
                                 /\ last' = [Bulk(call, BulkBody(buffer),
                                                  BulkBody(ids))
                                               EXCEPT !.ret = events]
                            ELSE /\ import_events' = AfterFailedFlush(buffer)
                                 /\ import_ids' = AfterFailedFlush(ids)
                                 /\ UNCHANGED sent_ids
                                 /\ owed' = AfterFailedFlush(buffer)
                                 /\ last' = BulkFailed(
                                      [Bulk(call, BulkBody(buffer),
                                            BulkBody(ids))
                                         EXCEPT !.bulk_raised = TRUE])
                     ELSE
                       /\ bulk_ok
                       /\ UNCHANGED <<bulk_failed, sent_ids, owed>>
                       /\ run' = RunStep(event, flush_interval, 0, TRUE)
                       /\ import_events' = buffer
                       /\ import_ids' = ids
                       /\ last' = [call EXCEPT !.ret = events]
       ELSE
         /\ UNCHANGED <<import_counter, nonempty_calls, normalize_errors>>
         /\ run' = RunStep(event, flush_interval, 0, FALSE)
         /\ IF import_events # << >>
              THEN
                IF bulk_ok
                  THEN /\ import_events' = AfterDrain(import_events)
                       /\ import_ids' = AfterDrain(import_ids)
                       /\ sent_ids' = sent_ids \cup Ids(BulkBody(import_ids))
                       /\ owed' = << >>
                       /\ drained' = TRUE
                       /\ UNCHANGED bulk_failed
                       /\ last' = [Bulk(call, BulkBody(import_events),
                                        BulkBody(import_ids))
                                     EXCEPT !.ret = import_counter]
                  ELSE /\ UNCHANGED <<import_events, import_ids, sent_ids>>
                       /\ owed' = << >>
                       /\ drained' = FALSE
                       /\ bulk_failed' = TRUE
                       /\ last' = BulkFailed(
                            [Bulk(call, BulkBody(import_events),
                                  BulkBody(import_ids))
                               EXCEPT !.bulk_raised = TRUE])
              ELSE
                /\ bulk_ok
                /\ UNCHANGED <<import_events, bulk_failed>>
                /\ UNCHANGED <<import_ids, sent_ids, owed>>
                /\ drained' = TRUE
                /\ last' = [call EXCEPT !.ret = import_counter]

ImportEvent ==
  \E index_name \in ProtocolNames, event \in ProtocolEvents,
     event_id \in ProtocolIds, flush_interval \in FlushIntervals,
     bulk_ok \in BOOLEAN :
    /\ nonempty_calls < MaxCalls
    /\ import_event(index_name, event, event_id, flush_interval, bulk_ok)

\* Calls with every kind of name, event and id.
ImportAnyEvent ==
  \E index_name \in IndexNames, event \in Events, event_id \in EventIds,
     flush_interval \in FlushIntervals, bulk_ok \in BOOLEAN :
    /\ nonempty_calls < MaxShapeCalls
    /\ import_event(index_name, event, event_id, flush_interval, bulk_ok)

--------------------------------------------------------------------------
\* create_index and delete_index

\* self.client.indices.exists(index_name)
IndexExists(index_name) == IndexId(index_name) \in indices

\* Mutant of CreateNeeded: the index is created without the check.
CreateAlways(exists) == TRUE

\* `if not self.client.indices.exists(index_name):` guards the creation.
CreateNeeded(exists) == ~exists

\* Mutant of DeleteNeeded: the index is deleted without the check.
DeleteAlways(exists) == TRUE

\* `if self.client.indices.exists(index_name):` guards the deletion.
DeleteNeeded(exists) == exists

\* The value create_index returns: the name, decoded when it is not text.
CreateResult(index_name) ==
  IF ~IsText(index_name) THEN decode(index_name) ELSE index_name

\* except ConnectionError: raise RuntimeError('Unable to connect to backend
\* datastore.')
CreateFailed(call) ==
  [call EXCEPT !.outcome = "raised", !.error = "RuntimeError",
               !.message = <<"Unable to connect to backend datastore.">>]

\* Mutant of DeleteFailed: the ConnectionError is swallowed.
DeleteFailedSilently(call) == call

\* except ConnectionError as e: raise RuntimeError('Unable to connect to
\* backend datastore: {}'.format(e))
DeleteFailed(call) ==
  [call EXCEPT !.outcome = "raised", !.error = "RuntimeError",
               !.message = <<"Unable to connect to backend datastore: ",
                             "ConnectionError">>]

IndexCall(op, index_name, reachable) ==
  [NoCall EXCEPT !.op = op, !.index_name = index_name,
                 !.existed = IndexExists(index_name), !.reachable = reachable,
                 !.pre_events = import_events,
                 !.pre_counter = import_counter]

\* create_index(index_name); reachable says whether indices.create, if
\* called, reaches the backend or raises ConnectionError.
create_index(index_name, reachable) ==
  LET call == IndexCall("create_index", index_name, reachable)
      id == IndexId(index_name)
  IN
  /\ UNCHANGED <<import_events, import_counter, nonempty_calls,
                 normalize_errors, run, drained, bulk_failed>>
  /\ UNCHANGED ImportHistory
  /\ IF CreateNeeded(IndexExists(index_name))
       THEN
         IF reachable
           THEN /\ indices' = indices \cup {id}
                /\ create_requests' = [create_requests EXCEPT ![id] = @ + 1]
                /\ delete_requests' = [delete_requests EXCEPT ![id] = 0]
                /\ last' = [call EXCEPT !.requests = <<"exists", "create">>,
                                        !.ret = CreateResult(index_name)]
           ELSE /\ UNCHANGED <<indices, create_requests, delete_requests>>
                /\ last' = CreateFailed([call EXCEPT
                                           !.requests = <<"exists", "create">>])
       ELSE
         /\ UNCHANGED <<indices, create_requests, delete_requests>>
         /\ last' = [call EXCEPT !.requests = <<"exists">>,
                                 !.ret = CreateResult(index_name)]

\* delete_index(index_name); reachable as for create_index.
delete_index(index_name, reachable) ==
  LET call == IndexCall("delete_index", index_name, reachable)
      id == IndexId(index_name)
  IN
  /\ UNCHANGED <<import_events, import_counter, nonempty_calls,
                 normalize_errors, run, drained, bulk_failed>>
  /\ UNCHANGED ImportHistory
  /\ IF DeleteNeeded(IndexExists(index_name))
       THEN
         IF reachable
           THEN /\ indices' = indices \ {id}
                /\ delete_requests' = [delete_requests EXCEPT ![id] = @ + 1]
                /\ create_requests' = [create_requests EXCEPT ![id] = 0]
                /\ last' = [call EXCEPT !.requests = <<"exists", "delete">>]
           ELSE /\ UNCHANGED <<indices, create_requests, delete_requests>>
                /\ last' = DeleteFailed([call EXCEPT
                                           !.requests = <<"exists", "delete">>])
       ELSE
         /\ UNCHANGED <<indices, create_requests, delete_requests>>
         /\ last' = [call EXCEPT !.requests = <<"exists">>]

CreateIndex ==
  \E index_name \in ProtocolNames, reachable \in BOOLEAN :
    create_index(index_name, reachable)

DeleteIndex ==
  \E index_name \in ProtocolNames, reachable \in BOOLEAN :
    delete_index(index_name, reachable)

\* Calls with every kind of name.
CreateAnyIndex ==
  \E index_name \in IndexNames, reachable \in BOOLEAN :
    create_index(index_name, reachable)

DeleteAnyIndex ==
  \E index_name \in IndexNames, reachable \in BOOLEAN :
    delete_index(index_name, reachable)

--------------------------------------------------------------------------
\* build_query and search

\* Mutant of BuildQuery: a should clause in place of the must clause.
BuildQueryShould(query_string) ==
  [query |-> [bool |-> [should |->
     <<[query_string |-> [query |-> query_string]]>>]]]

\* build_query(query_string): the query DSL dictionary.
BuildQuery(query_string) ==
  [query |-> [bool |-> [must |->
     <<[query_string |-> [query |-> query_string]]>>]]]

\* Mutant of SearchRequest: the default size is sent, not the argument.
SearchRequestDefaultSize(index_id, query_string, size) ==
  [body |-> BuildQuery(query_string), index |-> index_id,
   size |-> DEFAULT_SIZE, search_type |-> "query_then_fetch"]

\* The keyword arguments of self.client.search(...).
SearchRequest(index_id, query_string, size) ==
  [body |-> BuildQuery(query_string), index |-> index_id,
   size |-> size, search_type |-> "query_then_fetch"]

\* Mutant of StoreUntouched: the pending buffer is thrown away.
StoreBufferDropped == import_events' = << >> /\ UNCHANGED import_counter

\* build_query is static and search uses of self only self.client and
\* self.build_query: neither assigns import_events or import_counter.
StoreUntouched == UNCHANGED <<import_events, import_counter>>

QueryCall(op, query_string) ==
  [NoCall EXCEPT !.op = op, !.query_string = query_string,
                 !.pre_events = import_events,
                 !.pre_counter = import_counter]

\* build_query(query_string)
build_query(query_string) ==
  /\ StoreUntouched
  /\ UNCHANGED <<indices, nonempty_calls, normalize_errors, run, drained,
                 bulk_failed, create_requests, delete_requests>>
  /\ UNCHANGED ImportHistory
  /\ last' = [QueryCall("build_query", query_string) EXCEPT
                !.ret = BuildQuery(query_string)]

\* search(index_id, query_string, size); answer is what client.search
\* does: it returns a response or raises an error.
search(index_id, query_string, size, answer) ==
  LET call == [QueryCall("search", query_string) EXCEPT
                 !.index_name = index_id, !.size = size, !.answer = answer,
                 !.search = <<SearchRequest(index_id, query_string, size)>>]
  IN
  /\ StoreUntouched
  /\ UNCHANGED <<indices, nonempty_calls, normalize_errors, run, drained,
                 bulk_failed, create_requests, delete_requests>>
  /\ UNCHANGED ImportHistory
  /\ last' = IF answer.kind = "error"
               THEN [call EXCEPT !.outcome = "raised", !.error = answer.error]
               ELSE [call EXCEPT !.ret = answer]

BuildQueryCall ==
  \E query_string \in ProtocolQueries : build_query(query_string)

Search ==
  \E index_id \in ProtocolNames, query_string \in ProtocolQueries,
     size \in ProtocolSizes, answer \in ProtocolAnswers :
    search(index_id, query_string, size, answer)

BuildAnyQuery == \E query_string \in QueryStrings : build_query(query_string)

SearchAny ==
  \E index_id \in IndexNames, query_string \in QueryStrings, size \in Sizes,
     answer \in SearchAnswers :
    search(index_id, query_string, size, answer)

Next ==
  ImportEvent \/ CreateIndex \/ DeleteIndex \/ BuildQueryCall \/ Search

Spec == Init /\ [][Next]_vars

NextShapes == ImportAnyEvent

SpecShapes == Init /\ [][NextShapes]_vars

\* The indices specification: create_index and delete_index over every name.
NextIndices == CreateAnyIndex \/ DeleteAnyIndex

SpecIndices == Init /\ [][NextIndices]_vars

\* The queries specification: build_query and search over every input.
NextQueries == BuildAnyQuery \/ SearchAny

SpecQueries == Init /\ [][NextQueries]_vars

--------------------------------------------------------------------------
\* Reading the state.

IsImport == last.op = "import_event"

\* The last call was an import_event call with a non-empty event.
IsBuffering == IsImport /\ EventTruthy(last.event)

\* The last call was an import_event call in drain mode.
IsDrain == IsImport /\ ~EventTruthy(last.event)

\* The last call buffered its event (its normalisation did not raise).
Buffered == IsBuffering /\ last.error # "RuntimeError"

\* The sequence the pair of the last call was appended to: the body of the
\* bulk-write if the call issued one, the pending buffer otherwise.
AppendedTo == IF last.bulk # << >> THEN last.bulk[1] ELSE import_events

AppendedHeader == AppendedTo[Len(AppendedTo) - 1]

AppendedPayload == AppendedTo[Len(AppendedTo)]

\* The event inside a payload, wrapped or not.
PayloadEvent(payload) ==
  IF "script" \in DOMAIN payload THEN payload.script
  ELSE IF "doc" \in DOMAIN payload THEN payload.doc
  ELSE payload

\* The keys and values of a dict are all text.
OnlyText(d) ==
  \A i \in 1..Len(d.items) : IsText(d.items[i].k) /\ IsText(d.items[i].v)

--------------------------------------------------------------------------
\* C1: On a fresh store, N consecutive import_event calls with non-empty
\* events and flush_interval = N issue no bulk-write during the first N-1
\* calls and exactly one during the N-th, after which the buffer is empty.
\* (Judged once the latest call of the run has returned.)
C1_FlushOnNthCall ==
  (run.alive /\ run.calls >= 1 /\ run.returned) =>
    /\ run.calls < run.flush_interval => run.bulks = 0
    /\ run.calls = run.flush_interval =>
         run.bulks = 1 /\ import_events = << >>

\* C1 where no call of the run raised while normalising its event.
C1_FlushOnNthCall_Normalized ==
  normalize_errors = 0 => C1_FlushOnNthCall

\* C2: A drain after buffered events issues exactly one bulk-write holding
\* exactly the buffered pairs, the buffer is then flushed, and a drain that
\* follows issues no bulk-write.
\* (Judged while no bulk-write has failed: the buffered events are then the
\* ones that triggered no auto-flush.)
C2_DrainFlushes ==
  ~bulk_failed =>
    /\ (IsDrain /\ last.pre_events # << >>) => last.bulk = <<last.pre_events>>
    /\ drained => import_events = << >>
    /\ (IsDrain /\ last.after_drain) => last.bulk = << >>

\* The part of C2 about the first drain: one bulk-write, the whole buffer.
C2_DrainSendsBuffer ==
  IsDrain =>
    last.bulk = IF last.pre_events # << >> THEN <<last.pre_events>> ELSE << >>

\* C3: An import_event call with a non-empty event issues a bulk-write iff
\* the events counter after its increment is a multiple of the call's
\* flush_interval; it then issues exactly one, whose body is the whole
\* buffer including the pair just appended, and the buffer is empty when
\* the call returns.
C3_FlushIffMultiple ==
  IsBuffering =>
    /\ (last.bulk # << >>) <=> ((last.pre_counter + 1) % last.flush_interval = 0)
    /\ Len(last.bulk) <= 1
    /\ last.bulk # << >> =>
         /\ Len(last.bulk[1]) = Len(last.pre_events) + 2
         /\ SubSeq(last.bulk[1], 1, Len(last.pre_events)) = last.pre_events
         /\ last.outcome = "returned" => import_events = << >>
    /\ (last.bulk = << >> /\ last.outcome = "returned") =>
         /\ Len(import_events) = Len(last.pre_events) + 2
         /\ SubSeq(import_events, 1, Len(last.pre_events)) = last.pre_events

\* C3 for the calls that got as far as buffering their event.
C3_FlushIffMultiple_Normalized ==
  last.error # "RuntimeError" => C3_FlushIffMultiple

\* C4: The events counter equals the number of import_event calls made with
\* a non-empty event, and every import_event call that returns, returns the
\* counter's current value.
C4_CounterCountsCalls ==
  /\ import_counter = nonempty_calls
  /\ (IsImport /\ last.outcome = "returned") => last.ret = import_counter

\* C4 with the calls that raised while normalising left out of the count.
C4_CounterCountsBuffered ==
  /\ import_counter = nonempty_calls - normalize_errors
  /\ (IsImport /\ last.outcome = "returned") => last.ret = import_counter
  /\ IsImport => import_counter >= last.pre_counter

\* C5 (as stated): the appended header is an "index" instruction scoped to
\* index_name when no event_id is supplied, an "update" instruction scoped
\* to index_name and addressing the event_id when one is supplied.
C5_HeaderBySuppliedId ==
  Buffered =>
    AppendedHeader =
      IF last.event_id = None
        THEN [index |-> [_index |-> last.index_name]]
        ELSE [update |-> [_index |-> last.index_name, _id |-> last.event_id]]

\* C5 (amended): the appended header is an "index" instruction scoped to
\* index_name when the event_id is absent or empty, an "update" instruction
\* scoped to index_name and addressing the event_id when it is non-empty.
C5_HeaderByTruthyId ==
  Buffered =>
    AppendedHeader =
      IF last.event_id = None \/ last.event_id.s = ""
        THEN [index |-> [_index |-> last.index_name]]
        ELSE [update |-> [_index |-> last.index_name, _id |-> last.event_id]]

C5_Witness ==
  /\ Buffered
  /\ last.event_id = Text("e1")
  /\ "update" \in DOMAIN AppendedHeader
  /\ AppendedHeader.update._id = Text("e1")

\* C6 (as stated): the appended payload is {script: event} when an event_id
\* is supplied and the event contains a lang field, {doc: event} when an
\* event_id is supplied and the event has no lang field, the event itself
\* when no event_id is supplied.
C6_PayloadBySuppliedIdAndLang ==
  Buffered =>
    LET payload == AppendedPayload
        hasLang == Text("lang") \in DictKeys(last.event)
    IN IF last.event_id = None
         THEN payload.t = "dict"
         ELSE IF hasLang THEN DOMAIN payload = {"script"}
                         ELSE DOMAIN payload = {"doc"}

\* C6 (amended): the appended payload is {script: event} when a non-empty
\* event_id is supplied and the event has a non-empty lang field,
\* {doc: event} when a non-empty event_id is supplied and the event has no
\* lang field or an empty one, the event itself when the event_id is absent
\* or empty; the wrapped event has the keys of the event passed in.
C6_PayloadByTruthyIdAndLang ==
  Buffered =>
    LET payload == AppendedPayload
        noId == last.event_id = None \/ last.event_id.s = ""
        lang == {i \in 1..Len(last.event.items) :
                   last.event.items[i].k = Text("lang")}
        script == \E i \in lang : last.event.items[i].v.s # ""
    IN /\ IF noId THEN payload.t = "dict"
          ELSE IF script THEN DOMAIN payload = {"script"}
                         ELSE DOMAIN payload = {"doc"}
       /\ DictKeys(PayloadEvent(payload)) = DictKeys(last.event)

C6_Witness ==
  /\ Buffered
  /\ last.event_id = Text("e1")
  /\ DOMAIN AppendedPayload = {"script"}
  /\ DictGet(AppendedPayload.script, Text("lang")) = Text("painless")

\* C7: The payload that ends up in the pending buffer for an event with
\* binary keys or binary values has only text keys and text values.
C7_OnlyTextBuffered ==
  Buffered => OnlyText(PayloadEvent(AppendedPayload))

\* The part of C7 about events whose keys are all text: binary values are
\* decoded.
C7_TextKeysBinaryValuesDecoded ==
  (Buffered /\ \A k \in DictKeys(last.event) : IsText(k)) =>
    OnlyText(PayloadEvent(AppendedPayload))

--------------------------------------------------------------------------
\* C8: create_index is idempotent: calls with the same index name and a
\* reachable backend have a create request served at most once while the
\* index is not deleted, a call on a present index sends no create request,
\* a call that returns leaves the index present and returns the name as
\* text, whichever string type named it.
C8_CreateIdempotent ==
  /\ \A i \in IndexIds : create_requests[i] <= 1
  /\ (last.op = "create_index" /\ last.existed) =>
       last.requests = <<"exists">> /\ last.outcome = "returned"
  /\ (last.op = "create_index" /\ last.outcome = "returned") =>
       /\ IndexId(last.index_name) \in indices
       /\ last.ret = Text(last.index_name.s)

C8_Witness ==
  /\ last.op = "create_index"
  /\ last.index_name = Bytes("idx")
  /\ last.existed
  /\ last.ret = Text("idx")
  /\ create_requests["idx"] = 1

\* C9: delete_index is idempotent: on an absent index it sends no delete
\* request and raises nothing, on a present index it sends exactly one, and
\* after a delete that returned the index is absent, so that a second delete
\* of the name sends nothing.
C9_DeleteIdempotent ==
  /\ \A i \in IndexIds : delete_requests[i] <= 1
  /\ last.op = "delete_index" =>
       /\ ~last.existed =>
            last.requests = <<"exists">> /\ last.outcome = "returned"
       /\ last.existed => last.requests = <<"exists", "delete">>
       /\ last.outcome = "returned" => IndexId(last.index_name) \notin indices

C9_Witness ==
  /\ last.op = "delete_index"
  /\ ~last.existed
  /\ last.outcome = "returned"
  /\ delete_requests[IndexId(last.index_name)] = 1

\* C10: With the backend unreachable, create_index of an absent index and
\* delete_index of a present index raise RuntimeError (not the client's
\* ConnectionError), for delete with the cause in the message; the call
\* returns nothing and the index is as it was.
C10_BackendUnavailable ==
  LET id == IndexId(last.index_name)
      creating == last.op = "create_index" /\ ~last.existed
      deleting == last.op = "delete_index" /\ last.existed
  IN ((creating \/ deleting) /\ ~last.reachable) =>
       /\ last.outcome = "raised"
       /\ last.error = "RuntimeError"
       /\ last.ret = None
       /\ last.message # << >>
       /\ deleting => last.message[Len(last.message)] = "ConnectionError"
       /\ creating => id \notin indices
       /\ deleting => id \in indices

C10_Witness ==
  /\ last.op = "delete_index"
  /\ last.existed
  /\ ~last.reachable
  /\ last.outcome = "raised"
  /\ last.message = <<"Unable to connect to backend datastore: ",
                      "ConnectionError">>

--------------------------------------------------------------------------
\* C11: A bulk-write that fails inside import_event, issued by the
\* auto-flush or by a drain, is not caught: the call raises the failure,
\* returns no count, and issues no second bulk-write.
C11_BulkFailurePropagates ==
  (IsImport /\ last.bulk_raised) =>
    /\ last.outcome = "raised"
    /\ last.error = "TransportError"
    /\ last.ret = None
    /\ Len(last.bulk) = 1

C11_Witness ==
  /\ IsDrain
  /\ last.bulk_raised
  /\ last.outcome = "raised"
  /\ last.bulk = <<import_events>>

--------------------------------------------------------------------------
\* C12: create_index, delete_index, build_query and search leave the
\* pending buffer and the events counter as they were, whether they return
\* or raise, and a call that empties a non-empty buffer has issued a
\* bulk-write.
C12_BufferFrame ==
  /\ last.op \in {"create_index", "delete_index", "build_query", "search"} =>
       import_events = last.pre_events /\ import_counter = last.pre_counter
  /\ (last.pre_events # << >> /\ import_events = << >>) =>
       IsImport /\ last.bulk # << >>

C12_Witness ==
  /\ last.op = "search"
  /\ last.outcome = "raised"
  /\ last.pre_events # << >>
  /\ import_events = last.pre_events
  /\ import_counter = 2

\* C13: search issues exactly one backend search request, scoped to
\* index_id, whose body is {query: {bool: {must: [{query_string: {query:
\* query_string}}]}}}, with size as given; it returns the backend's
\* response as it is, and raises the backend's error as it is.
C13_SearchForwards ==
  last.op = "search" =>
    /\ Len(last.search) = 1
    /\ last.search[1].index = last.index_name
    /\ last.search[1].size = last.size
    /\ last.search[1].body =
         [query |-> [bool |-> [must |->
            <<[query_string |-> [query |-> last.query_string]]>>]]]
    /\ last.answer.kind = "response" =>
         last.outcome = "returned" /\ last.ret = last.answer
    /\ last.answer.kind = "error" =>
         /\ last.outcome = "raised"
         /\ last.error = last.answer.error
         /\ last.ret = None

C13_Witness ==
  /\ last.op = "search"
  /\ last.size = 10
  /\ last.index_name = Text("logs")
  /\ last.query_string = Text("foo AND (")
  /\ last.search[1].size = 10
  /\ last.search[1].index = Text("logs")
  /\ last.outcome = "raised"
  /\ last.error = "RequestError"

--------------------------------------------------------------------------
\* An element of the buffer is a header line ({index: ...} or {update: ...}).
IsHeader(x) == DOMAIN x \in {{"index"}, {"update"}}

\* An element of the buffer is a payload: an event, bare or wrapped.
IsPayload(x) == DOMAIN x \in {{"script"}, {"doc"}, {"t", "items"}}

\* C14: The pending buffer always has even length and alternates header,
\* payload, header, payload; a buffering call puts its pair after the pairs
\* that were pending, and no other call reorders the buffer.
C14_PairsInCallOrder ==
  /\ Len(import_events) % 2 = 0
  /\ \A i \in 1..Len(import_events) :
       IF i % 2 = 1 THEN IsHeader(import_events[i])
                    ELSE IsPayload(import_events[i])
  /\ Buffered =>
       /\ Len(AppendedTo) = Len(last.pre_events) + 2
       /\ SubSeq(AppendedTo, 1, Len(last.pre_events)) = last.pre_events
       /\ IsHeader(AppendedHeader)
       /\ IsPayload(AppendedPayload)
  /\ ~Buffered => import_events = last.pre_events

C14_Witness ==
  /\ Buffered
  /\ Len(import_events) = 4
  /\ Len(last.pre_events) = 2
  /\ "index" \in DOMAIN import_events[1]
  /\ "update" \in DOMAIN import_events[3]
  /\ "doc" \in DOMAIN import_events[4]

--------------------------------------------------------------------------
\* C15: An import_event call without an event, or with an empty one, runs
\* in drain mode: it appends nothing, leaves the counter alone, and issues
\* a bulk-write of the pending buffer exactly when that buffer is not
\* empty, whatever the counter and the flush interval are.
C15_DrainMode ==
  (IsImport /\ last.event \in NoEvents) =>
    /\ import_events = last.pre_events
    /\ import_counter = last.pre_counter
    /\ last.bulk = IF last.pre_events = << >> THEN << >>
                   ELSE <<last.pre_events>>
    /\ last.outcome = "returned" => last.ret = last.pre_counter

\* A drain with nothing pending whose counter is a multiple of its
\* interval: the modulo rule would flush, the drain does not.
C15_Witness ==
  /\ IsImport
  /\ last.event = Dict(<< >>)
  /\ last.pre_counter = 2
  /\ last.flush_interval = 2
  /\ last.pre_events = << >>
  /\ last.bulk = << >>
  /\ last.outcome = "returned"

--------------------------------------------------------------------------
\* C16: While every bulk-write succeeds, no bulk-write holds the pair of an
\* event that an earlier bulk-write already held: each pair is sent at most
\* once.
C16_SentAtMostOnce ==
  (IsImport /\ ~bulk_failed) => last.resent = {}

\* C17: After a drain that returned, the pair of every event buffered so
\* far has been in the body of a bulk-write that succeeded, and in every
\* bulk-write body the pairs stand in the order of their calls.
C17_DrainDeliversAll ==
  /\ (IsDrain /\ last.outcome = "returned") =>
       \A o \in 1..import_counter : o \in sent_ids
  /\ (IsImport /\ last.bulk # << >>) =>
       LET ids == last.bulk_ids[1] IN
       /\ Len(ids) = Len(last.bulk[1])
       /\ \A i \in 1..Len(ids) - 1 : ids[i] <= ids[i + 1]

\* A drain that delivers the pairs an auto-flush that raised had left.
C17_Witness ==
  /\ IsDrain
  /\ last.outcome = "returned"
  /\ bulk_failed
  /\ import_counter = 2
  /\ sent_ids = {1, 2}
  /\ last.bulk_ids = << <<1, 1, 2, 2>> >>

\* C18: While every import_event call has used the same flush interval N
\* and no bulk-write has raised, the buffer holds (counter mod N) pairs, and
\* the body of every auto-flush holds N pairs.
C18_BufferHoldsCounterModN ==
  \A N \in FlushIntervals :
    (intervals = {N} /\ ~bulk_failed) =>
      /\ Len(import_events) = 2 * (import_counter % N)
      /\ (Buffered /\ last.bulk # << >>) => Len(last.bulk[1]) = 2 * N

C18_Witness ==
  /\ Buffered
  /\ last.outcome = "returned"
  /\ intervals = {2}
  /\ ~bulk_failed
  /\ import_counter = 3
  /\ Len(import_events) = 2
  /\ sent_ids = {1, 2}

\* C19: After an auto-flush whose bulk-write raised, the counter counts the
\* event of the call and the buffer holds what it held before the call
\* followed by the pair of the call, which is the body that was sent; and
\* the body of the next bulk-write starts with what the buffer retained.
C19_FailedFlushRetains ==
  /\ (Buffered /\ last.bulk_raised) =>
       /\ import_counter = last.pre_counter + 1
       /\ import_events = last.bulk[1]
       /\ Len(import_events) = Len(last.pre_events) + 2
       /\ SubSeq(import_events, 1, Len(last.pre_events)) = last.pre_events
       /\ owed = import_events
  /\ (IsImport /\ last.bulk # << >>) =>
       /\ Len(last.bulk[1]) >= Len(last.pre_owed)
       /\ SubSeq(last.bulk[1], 1, Len(last.pre_owed)) = last.pre_owed

\* The auto-flush after one that raised sends the retained pair and its own.
C19_Witness ==
  /\ Buffered
  /\ last.outcome = "returned"
  /\ last.pre_owed # << >>
  /\ last.pre_owed = last.pre_events
  /\ last.bulk_ids = << <<1, 1, 2, 2>> >>
  /\ import_events = << >>

====
